---- MODULE Spec2Model ----
(***************************************************************************)
(* Model of the hfendpoint whisper transcription endpoint:                 *)
(*   - chunk_audio_with_duration   (src/src/hfendpoint/audio/__init__.py)  *)
(*   - process_chunk / process_chunks, WhisperEndpoint.__call__ and        *)
(*     _handle_inference_stream     (src/examples/whisper/transcribe.py)   *)
(*   - transcription / scoped_cancellation_handler                         *)
(*                                  (src/src/hfendpoint/handlers/openai)   *)
(*   - EngineMonitor and HpaObservableScheduler.schedule                   *)
(*                (src/src/hfendpoint/handlers/monitor.py, engines/vllm.py) *)
(* Four specifications share the module: SpecChunk (the chunker as a pure  *)
(* function), SpecDecode (the segment decoder and assembler as pure        *)
(* functions), Spec (one transcription request running on the asyncio      *)
(* event loop, with the engine and the client as the environment) and      *)
(* SpecMonitor (the engine monitor, the scheduler publishing to it and the *)
(* subscribers of GET /state on the same event loop).                      *)
(***************************************************************************)
EXTENDS Integers, Sequences, FiniteSets, TLC

VARIABLES
    \* ---- chunker (SpecChunk)
    audio,          \* the waveform handed to chunk_audio_with_duration
    max_dur,        \* maximum_duration_sec
    rate,           \* sampling_rate
    audio_chunks,   \* the returned list of windows
    cpc,            \* "input" before the call, "chunked" after it
    \* ---- segment decoder and assembler (SpecDecode)
    chunks,         \* per window, generation.token_ids of its final output
    segments,       \* materialized_segments returned by process_chunks
    tokens_acc,     \* materialized_segments_tokens_acc, decoded into the text
    dpc,            \* "input" before process_chunks, "assembled" after it
    \* ---- one transcription request on the event loop (Spec)
    request,        \* the ApiRequest: file_len, language_ok, response_format
    service,        \* "resolved" once get_service(ENDPOINT_NAME) was called
    pc,             \* where the handler task is suspended
    scope,          \* the task group of scoped_cancellation_handler
    cancel_called,  \* CancelScope.cancel_called of that task group
    nwin,           \* len(audio_chunks) inside __call__
    task,           \* state of each _handle_inference_stream task
    step,           \* each task's loop variable `step`
    yielded,        \* engine side: steps yielded so far per request id
    fin,            \* engine side: the final step of the id was yielded
    cancels,        \* engine side: cancel(request_id) calls received per id
    text_chunks,    \* what asyncio.gather returned
    response,       \* what the handler handed back to the framework
    done_order,     \* history: ids in the order their tasks returned
    disconnected,   \* history: the client has disconnected
    inflight_at_cancel, \* history: ids in flight when a disconnect hit gather
    inflight_at_fail,   \* history: ids in flight when the failure surfaced
    assembled,      \* history: process_chunks was started
    \* ---- the engine monitor and its subscribers (SpecMonitor)
    current,        \* EngineMonitor._current
    queue,          \* EngineMonitor._queue, an asyncio.LifoQueue(1)
    tasks,          \* broadcast tasks created and not yet run, oldest first
    put_waiting,    \* messages of broadcast tasks suspended in _queue.put
    getters,        \* subscribers suspended in _queue.get, oldest first
    sub,            \* where each subscriber's recv generator is
    events,         \* the samples each subscriber was sent, in order
    gone,           \* the subscriber's client has disconnected
    published,      \* history: samples passed to broadcast_sync, in order
    start_len,      \* history: Len(published) when the subscriber's recv began
    start_current,  \* history: _current when the subscriber's recv began
    drained,        \* history: number of samples taken by subscribers
    purged          \* history: number of samples purged by broadcast

chunkVars == <<audio, max_dur, rate, audio_chunks, cpc>>
decodeVars == <<chunks, segments, tokens_acc, dpc>>
orchVars == <<request, service, pc, scope, cancel_called, nwin, task, step, yielded, fin,
              cancels, text_chunks, response, done_order, disconnected,
              inflight_at_cancel, inflight_at_fail, assembled>>

monVars == <<current, queue, tasks, put_waiting, getters, sub, events, gone,
             published, start_len, start_current, drained, purged>>

\* one window decoded by the vLLM catalog endpoint: the request's verbosity,
\* the engine's output so far (token ids and logprobs), and what process_chunk
\* gave
VARIABLES cat_pc, cat_verbose, cat_ids, cat_logprobs, cat_out

catVars == <<cat_pc, cat_verbose, cat_ids, cat_logprobs, cat_out>>

vars == <<chunkVars, decodeVars, orchVars, monVars, catVars>>

-----------------------------------------------------------------------------
(* Bounds of the model *)

\* longest waveform, in samples
MaxLen == 5
\* largest maximum_duration_sec and sampling_rate tried by SpecChunk
MaxDur == 2
MaxRate == 2

\* sample values: silence and one non-silent level
Samples == {0, 1}

\* most windows handed to process_chunks, and most tokens over all of them
MaxChunks == 2
MaxTotalTokens == 5

\* longest decoded audio of a request, in half windows
MaxHalfWindows == 4
\* most steps the engine yields for one sub-request
MaxSteps == 2

\* most scheduling steps of the engine
MaxPublishes == 3

-----------------------------------------------------------------------------
(* Generic helpers *)

\* all sequences over S of length at most n
SeqsUpTo(S, n) == UNION {[1..k -> S] : k \in 0..n}

RECURSIVE Flatten(_)
\* concatenation of a sequence of sequences
Flatten(ss) == IF ss = <<>> THEN <<>> ELSE Head(ss) \o Flatten(Tail(ss))

-----------------------------------------------------------------------------
(* chunk_audio_with_duration *)

\* np.pad(a, (0, padding), constant_values=0.0)
np_pad(a, padding) == a \o [i \in 1..padding |-> 0]

\* np.split(a, sections): `sections` equal consecutive parts
np_split(a, sections) ==
    [i \in 1..sections |->
        SubSeq(a, (i - 1) * (Len(a) \div sections) + 1, i * (Len(a) \div sections))]

\* faulty variant of Padding: the remainder itself, not its complement
MutPadding(len, max_duration_samples) == len % max_duration_samples

\* padding = max_duration_samples - np.remainder(len(audio), max_duration_samples)
Padding(len, max_duration_samples) ==
    max_duration_samples - (len % max_duration_samples)

\* faulty variant of chunk_audio_with_duration: a remainder of 0 pads nothing
MutChunkExact(a, maximum_duration_sec, sampling_rate) ==
    LET max_duration_samples == sampling_rate * maximum_duration_sec
        padding == IF Len(a) % max_duration_samples = 0 THEN 0
                   ELSE max_duration_samples - (Len(a) % max_duration_samples)
        padded == np_pad(a, padding)
    IN  np_split(padded, Len(padded) \div max_duration_samples)

chunk_audio_with_duration(a, maximum_duration_sec, sampling_rate) ==
    LET max_duration_samples == sampling_rate * maximum_duration_sec
        padding == Padding(Len(a), max_duration_samples)
        padded == np_pad(a, padding)
    IN  np_split(padded, Len(padded) \div max_duration_samples)

-----------------------------------------------------------------------------
(* The tokenizer, as far as process_chunk uses it *)

WHISPER_SEGMENT_DURATION_SEC == 30

\* tokenizer.convert_tokens_to_ids("<|0.00|>")
k_timestamp_token == 50365

\* ordinary text tokens of the modelled vocabulary
TextTokens == {1}

\* The vocabulary has one timestamp token every 0.02 s from <|0.00|> to
\* <|30.00|>, with consecutive ids; the model keeps three of them:
\* <|0.00|>, <|15.00|> and <|30.00|>.
TimestampTokens ==
    {k_timestamp_token + k * (WHISPER_SEGMENT_DURATION_SEC * 25) : k \in 0..2}

Vocabulary == TextTokens \cup TimestampTokens

\* tokenizer.convert_ids_to_tokens([id])[0] for a timestamp token: the text
\* "<|s.cc|>", kept as its four parts
convert_ids_to_tokens(id) ==
    LET cs == (id - k_timestamp_token) * 2
    IN  <<"<|", cs \div 100, cs % 100, "|>">>

\* float(text[2:-2]): the number between the brackets, here in hundredths of
\* a second
ParseTimestamp(text) == text[2] * 100 + text[3]

-----------------------------------------------------------------------------
(* process_chunk and process_chunks *)

\* timestamps_mask = ids >= k_timestamp_token
timestamps_mask(ids) == [i \in 1..Len(ids) |-> ids[i] >= k_timestamp_token]

RECURSIVE FlatNonZeroFrom(_, _)
FlatNonZeroFrom(mask, i) ==
    IF i > Len(mask) THEN <<>>
    ELSE (IF mask[i] THEN <<i - 1>> ELSE <<>>) \o FlatNonZeroFrom(mask, i + 1)

\* np.flatnonzero(mask): the 0-based positions that are set, ascending
flatnonzero(mask) == FlatNonZeroFrom(mask, 1)

\* faulty variant of Slice: the token at lo is left out
MutSlice(ids, lo, hi) == SubSeq(ids, lo + 2, hi)

\* ids[lo:hi] of Python, lo and hi 0-based
Slice(ids, lo, hi) == SubSeq(ids, lo + 1, hi)

\* faulty variant of IsSingleEndingTimestamp: only the last token is tested
MutIsSingleEndingTimestamp(mask) == Len(mask) >= 1 /\ mask[Len(mask)]

\* np.array_equal(timestamps_mask[-2:], [False, True])
IsSingleEndingTimestamp(mask) ==
    /\ Len(mask) >= 2
    /\ ~mask[Len(mask) - 1]
    /\ mask[Len(mask)]

\* id=t, the index of the timestamp occurrence
SegmentId(t) == t

\* faulty variant of NextStart: the start is taken on even occurrences
MutNextStart(t, timestamp, timestamp_start) ==
    IF t % 2 = 0 THEN timestamp ELSE timestamp_start

\* else-branch of the loop: timestamp_start = timestamp on odd occurrences
NextStart(t, timestamp, timestamp_start) ==
    IF t % 2 = 0 THEN timestamp_start ELSE timestamp

\* faulty variant of SegmentTimes: the two bounds are swapped
MutSegmentTimes(timestamp_start, timestamp_end) ==
    [start |-> timestamp_end, end |-> timestamp_start]

\* start=timestamp_start, end=timestamp_end of the Segment(...) call
SegmentTimes(timestamp_start, timestamp_end) ==
    [start |-> timestamp_start, end |-> timestamp_end]

RECURSIVE ScanTimestamps(_, _, _, _, _, _)
\* the loop `for (t, position) in enumerate(np.flatnonzero(timestamps_mask))`,
\* from occurrence t (0-based) on, with the loop's running variables
ScanTimestamps(ids, positions, t, timestamp_start, slice_start, flag) ==
    IF t >= Len(positions) THEN <<>>
    ELSE
        LET position == positions[t + 1]
            timestamp == ParseTimestamp(convert_ids_to_tokens(ids[position + 1]))
        IN  IF t % 2 = 0
            THEN <<[id |-> SegmentId(t),
                    seek |-> 0,
                    start |-> SegmentTimes(timestamp_start, timestamp).start,
                    end |-> SegmentTimes(timestamp_start, timestamp).end,
                    tokens |-> Slice(ids, slice_start, position),
                    is_single_ending_timestamp |-> flag]>>
                 \o ScanTimestamps(ids, positions, t + 1,
                                   NextStart(t, timestamp, timestamp_start),
                                   position, flag)
            ELSE ScanTimestamps(ids, positions, t + 1,
                                NextStart(t, timestamp, timestamp_start),
                                slice_start, flag)

\* process_chunk(tokenizer, ids, request): the segments it yields, in order
process_chunk(ids) ==
    LET mask == timestamps_mask(ids)
    IN  IF \E i \in 1..Len(mask) : mask[i]
        THEN ScanTimestamps(ids, flatnonzero(mask), 0, 0, 0,
                            IsSingleEndingTimestamp(mask))
        ELSE <<>>

\* faulty variant of TimeOffset: every window gets the offset of the first
MutTimeOffset(idx) == 0

\* time_offset = idx * WHISPER_SEGMENT_DURATION_SEC, in hundredths of a second
TimeOffset(idx) == idx * WHISPER_SEGMENT_DURATION_SEC * 100

\* faulty variant of Rebase: the end of the segment is left window-local
MutRebase(seg, segment_offset, time_offset) ==
    [seg EXCEPT !.id = @ + segment_offset,
                !.start = @ + time_offset]

\* the body of process_chunks' inner loop: segment.id += segment_offset,
\* segment.start += time_offset, segment.end += time_offset
Rebase(seg, segment_offset, time_offset) ==
    [seg EXCEPT !.id = @ + segment_offset,
                !.start = @ + time_offset,
                !.end = @ + time_offset]

\* faulty variant of AccumulateTokens: a window without segments adds nothing
MutAccumulateTokens(acc, token_ids, emitted) ==
    IF emitted = <<>> THEN acc ELSE acc \o token_ids

\* materialized_segments_tokens_acc += generation.token_ids, after the
\* segments `emitted` of the window were appended
AccumulateTokens(acc, token_ids, emitted) == acc \o token_ids

RECURSIVE ProcessFrom(_, _, _, _)
\* the loop `for (idx, chunk) in enumerate(chunks)` from idx (0-based) on
ProcessFrom(cs, idx, materialized_segments, acc) ==
    IF idx >= Len(cs) THEN [segments |-> materialized_segments, tokens |-> acc]
    ELSE
        LET time_offset == TimeOffset(idx)
            segment_offset == Len(materialized_segments)
            ids == cs[idx + 1]
            emitted == process_chunk(ids)
        IN  ProcessFrom(cs, idx + 1,
                materialized_segments \o
                    [j \in 1..Len(emitted) |->
                        Rebase(emitted[j], segment_offset, time_offset)],
                AccumulateTokens(acc, ids, emitted))

\* process_chunks(tokenizer, chunks, request)
process_chunks(cs) == ProcessFrom(cs, 0, <<>>, <<>>)

-----------------------------------------------------------------------------
(* The request, the engine and the gather of WhisperEndpoint.__call__ *)

WHISPER_SAMPLING_RATE == 22050

\* class ResponseFormat
ResponseFormats == {"json", "srt", "text", "verbose_json", "vtt"}

\* len(np.split(audio, len(audio) // max_duration_samples)) for a waveform of
\* `len` samples: the number of windows chunk_audio_with_duration returns
ChunkCount(len, maximum_duration_sec, sampling_rate) ==
    LET max_duration_samples == sampling_rate * maximum_duration_sec
    IN  (len + Padding(len, max_duration_samples)) \div max_duration_samples

\* the waveform lengths a request's audio may decode to: whole and half
\* windows
AudioLengths ==
    {j * ((WHISPER_SAMPLING_RATE * WHISPER_SEGMENT_DURATION_SEC) \div 2) :
        j \in 1..MaxHalfWindows}

\* most windows of a request, and the audio_chunk_id values
MaxWindows ==
    ChunkCount(MaxHalfWindows * ((WHISPER_SAMPLING_RATE * WHISPER_SEGMENT_DURATION_SEC) \div 2),
               WHISPER_SEGMENT_DURATION_SEC, WHISPER_SAMPLING_RATE)

Ids == 0..(MaxWindows - 1)

\* the value of `step` before the stream has yielded anything
NoStep == [request_id |-> -1, token_ids |-> <<>>, finished |-> FALSE]

\* The engine's accumulated token_ids for request id i after k steps: one
\* more token per step of a fixed stream that opens with a text token naming
\* the window and then alternates timestamps and text.
EngineStream(i) ==
    <<i + 1,
      k_timestamp_token + WHISPER_SEGMENT_DURATION_SEC * 25,
      k_timestamp_token + WHISPER_SEGMENT_DURATION_SEC * 25,
      i + 1,
      k_timestamp_token + WHISPER_SEGMENT_DURATION_SEC * 50>>

EngineTokens(i, k) ==
    [j \in 1..k |-> EngineStream(i)[((j - 1) % Len(EngineStream(i))) + 1]]

\* the RequestOutput the engine yields as step k of request id i
EngineStep(i, k, finished) ==
    [request_id |-> i, token_ids |-> EngineTokens(i, k), finished |-> finished]

\* faulty variant of GatherResults: the results in completion order
MutGatherResults(n, steps, order) ==
    [k \in 1..n |-> steps[order[k]]]

\* asyncio.gather(*chunks_handle): the return values of the awaitables in
\* the order they were passed, whatever order they completed in
GatherResults(n, steps, order) ==
    [k \in 1..n |-> steps[k - 1]]

\* tokenizer.decode(ids, skip_special_tokens=True): the special (timestamp)
\* tokens are dropped, the text tokens kept in order
DecodeText(ids) ==
    LET IsText(tok) == tok < k_timestamp_token
    IN  SelectSeq(ids, IsText)

NoResponse == [kind |-> "pending", text |-> <<>>, segments |-> <<>>]

\* states of a task in which its sub-request is outstanding at the engine
InFlight == {"waiting", "aborting"}

-----------------------------------------------------------------------------
(* EngineMonitor: the samples and the asyncio.LifoQueue(1) *)

\* scheduler_config.max_num_seqs of the deployment
max_num_seqs == 8

\* class MonitoringStats
MonitoringStats(in_flight, in_queue, max_in_flight) ==
    [in_flight |-> in_flight, in_queue |-> in_queue, max_in_flight |-> max_in_flight]

\* the sample HpaObservableScheduler.schedule builds; the k-th scheduling step
\* of a run reports k running sequences, which tells the samples apart
ScheduledStats(running_queue_size) ==
    MonitoringStats(running_queue_size, 0, max_num_seqs)

\* the subscribers of GET /state: two clients, so that one can be slow or
\* gone while the other reads
Subs == {1, 2}

\* asyncio.LifoQueue(1): maxsize
LifoQueueMaxSize == 1

\* Queue.full()
QueueFull(q) == Len(q) >= LifoQueueMaxSize

\* faulty variant of LifoGet: the item is read and left in the queue
MutLifoGet(q) == [item |-> q[Len(q)], rest |-> q]

\* LifoQueue._get(): the item put last, and the queue without it
LifoGet(q) == [item |-> q[Len(q)], rest |-> SubSeq(q, 1, Len(q) - 1)]

\* faulty variant of Purge: a full queue is left as it is
MutPurge(q) == q

\* `if self._queue.full(): self._queue.get_nowait()`
Purge(q) == IF QueueFull(q) THEN LifoGet(q).rest ELSE q

\* the last element of a non-empty sequence
Last(seq) == seq[Len(seq)]

-----------------------------------------------------------------------------
(* The vLLM catalog endpoint: logprobs, avg_logprob and compression ratio *)

\* the bound on the tokens of the window decoded by the catalog endpoint
MaxCatTokens == 4

\* log-probabilities of a sampled token, in integer units
LogprobValues == {-4, -2}

\* an alternative token of a decoding step: not sampled, more probable
AltLogprob == [token |-> 2, logprob |-> -1]

\* SamplingParams.from_optional(..., logprobs=100 if is_verbose else None)
create_params(is_verbose) ==
    [logprobs |-> IF is_verbose THEN 100 ELSE 0,
     logprobs_is_none |-> ~is_verbose]

\* CompletionOutput.logprobs: None unless the params asked for logprobs,
\* otherwise one dict per generated token
NoLogprobs == [is_none |-> TRUE, steps |-> <<>>]

\* faulty variant of ChosenLogprob: the last entry of the step's dict
MutChosenLogprob(step_logprobs) == step_logprobs[Len(step_logprobs)].logprob

\* next(iter(_step_.values())).logprob: the first entry of the step's dict,
\* which vLLM fills with the sampled token before the top-k alternatives
ChosenLogprob(step_logprobs) == step_logprobs[1].logprob

RECURSIVE SumLogprobs(_)
\* sum(... for _step_ in logprobs)
SumLogprobs(steps) ==
    IF steps = <<>> THEN 0
    ELSE ChosenLogprob(Head(steps)) + SumLogprobs(Tail(steps))

\* get_avg_logprob(logprobs): iterating None raises TypeError, dividing by
\* float(0) raises ZeroDivisionError; the quotient is kept as num / den
get_avg_logprob(logprobs) ==
    IF logprobs.is_none
    THEN [raised |-> "TypeError", is_none |-> TRUE, num |-> 0, den |-> 1]
    ELSE IF Len(logprobs.steps) = 0
    THEN [raised |-> "ZeroDivisionError", is_none |-> TRUE, num |-> 0, den |-> 1]
    ELSE [raised |-> "none", is_none |-> FALSE,
          num |-> SumLogprobs(logprobs.steps), den |-> Len(logprobs.steps)]

\* text.encode("utf-8"): every text token of the vocabulary decodes to the
\* one-byte character "a" (97)
EncodeUtf8(text) == [i \in 1..Len(text) |-> 97]

\* faulty variant of ZlibCompressedLen: no header and no checksum for no data
MutZlibCompressedLen(text_bytes) ==
    IF Len(text_bytes) = 0 THEN 0 ELSE Len(text_bytes) + 8

\* len(zlib.compress(text_bytes)) for a run of n bytes "a": a 2-byte header,
\* the deflate stream (n + 2 bytes of literals up to n = 4, a 5-byte
\* back-reference beyond) and the 4-byte Adler-32
ZlibCompressedLen(text_bytes) ==
    2 + (IF Len(text_bytes) <= 4 THEN Len(text_bytes) + 2 ELSE 5) + 4

\* compression_ratio(text): len(text_bytes) / len(zlib.compress(text_bytes)),
\* the quotient kept as num / den; a zero divisor raises
compression_ratio(text) ==
    LET text_bytes == EncodeUtf8(text)
        divisor == ZlibCompressedLen(text_bytes)
    IN  IF divisor = 0
        THEN [raised |-> "ZeroDivisionError", num |-> Len(text_bytes), den |-> 0]
        ELSE [raised |-> "none", num |-> Len(text_bytes), den |-> divisor]

\* process_chunk of the catalog endpoint, run to exhaustion: the scan of the
\* example handler, with get_avg_logprob(logprobs) and
\* compression_ratio(segment_text) evaluated for every segment built and the
\* offsets applied inside; the first exception ends the generator
catalog_process_chunk(ids, logprobs, segment_offset, timestamp_offset) ==
    LET scanned == process_chunk(ids)
        avg_logprob == get_avg_logprob(logprobs)
        Build(j) ==
            [id |-> segment_offset + scanned[j].id,
             start |-> timestamp_offset + scanned[j].start,
             end |-> timestamp_offset + scanned[j].end,
             text |-> DecodeText(scanned[j].tokens),
             tokens |-> scanned[j].tokens,
             avg_logprob |-> [is_none |-> avg_logprob.is_none,
                              num |-> avg_logprob.num,
                              den |-> avg_logprob.den],
             compression_ratio |->
                [num |-> compression_ratio(DecodeText(scanned[j].tokens)).num,
                 den |-> compression_ratio(DecodeText(scanned[j].tokens)).den]]
        Raising == {j \in 1..Len(scanned) :
                        compression_ratio(DecodeText(scanned[j].tokens)).raised # "none"}
        Built == IF Raising = {} THEN Len(scanned)
                 ELSE (CHOOSE j \in Raising : \A k \in Raising : j <= k) - 1
    IN  IF scanned = <<>>
        THEN [raised |-> "none", segments |-> <<>>]
        ELSE IF avg_logprob.raised # "none"
        THEN [raised |-> avg_logprob.raised, segments |-> <<>>]
        ELSE [raised |-> IF Raising = {} THEN "none" ELSE "ZeroDivisionError",
              segments |-> [j \in 1..Built |-> Build(j)]]

\* the rest state of the catalog endpoint's variables
CatIdle ==
    /\ cat_pc = "idle"
    /\ cat_verbose = FALSE
    /\ cat_ids = <<>>
    /\ cat_logprobs = NoLogprobs
    /\ cat_out = [raised |-> "none", segments |-> <<>>]


MonIdle ==
    /\ current = MonitoringStats(0, 0, 0)
    /\ queue = <<>>
    /\ tasks = <<>>
    /\ put_waiting = <<>>
    /\ getters = <<>>
    /\ sub = [s \in Subs |-> "none"]
    /\ events = [s \in Subs |-> <<>>]
    /\ gone = [s \in Subs |-> FALSE]
    /\ published = <<>>
    /\ start_len = [s \in Subs |-> 0]
    /\ start_current = [s \in Subs |-> MonitoringStats(0, 0, 0)]
    /\ drained = 0
    /\ purged = 0

-----------------------------------------------------------------------------
(* Rest states of the four parts of the model *)

ChunkIdle ==
    /\ audio = <<>> /\ max_dur = 1 /\ rate = 1 /\ audio_chunks = <<>>
    /\ cpc = "input"

DecodeIdle ==
    /\ chunks = <<<<>>>> /\ segments = <<>> /\ tokens_acc = <<>>
    /\ dpc = "input"

\* ApiRequest with its defaults and no file
DefaultRequest == [file_len |-> 0, language_ok |-> TRUE, response_format |-> "json"]

OrchIdle ==
    /\ service = "none"
    /\ pc = "idle"
    /\ scope = "none"
    /\ cancel_called = FALSE
    /\ nwin = 0
    /\ task = [i \in Ids |-> "none"]
    /\ step = [i \in Ids |-> NoStep]
    /\ yielded = [i \in Ids |-> 0]
    /\ fin = [i \in Ids |-> FALSE]
    /\ cancels = [i \in Ids |-> 0]
    /\ text_chunks = <<>>
    /\ response = NoResponse
    /\ done_order = <<>>
    /\ disconnected = FALSE
    /\ inflight_at_cancel = {}
    /\ inflight_at_fail = {}
    /\ assembled = FALSE

-----------------------------------------------------------------------------
(* SpecChunk: chunk_audio_with_duration on every small waveform *)

WindowSamples == rate * max_dur

ChunkInit ==
    /\ audio \in SeqsUpTo(Samples, MaxLen)
    /\ max_dur \in 1..MaxDur
    /\ rate \in 1..MaxRate
    /\ audio_chunks = <<>>
    /\ cpc = "input"
    /\ DecodeIdle
    /\ request = DefaultRequest
    /\ OrchIdle
    /\ MonIdle
    /\ CatIdle

\* the call chunk_audio_with_duration(audio, max_dur, rate)
Chunk ==
    /\ cpc = "input"
    /\ audio_chunks' = chunk_audio_with_duration(audio, max_dur, rate)
    /\ cpc' = "chunked"
    /\ UNCHANGED <<audio, max_dur, rate>>
    /\ UNCHANGED <<decodeVars, orchVars, monVars, catVars>>

ChunkNext == Chunk

SpecChunk == ChunkInit /\ [][ChunkNext]_vars

\* ceil(a / b) for a >= 0, b > 0
CeilDiv(a, b) == (a + b - 1) \div b

\* C8 (as claimed): for every length L > 0 the chunker returns exactly
\* ceil(L/W) windows, so an exact multiple of W gives L/W windows.
C8_ChunkCountIsCeil ==
    (cpc = "chunked" /\ Len(audio) > 0)
        => Len(audio_chunks) = CeilDiv(Len(audio), WindowSamples)

C10_EmptyWaveform ==
    (cpc = "chunked" /\ Len(audio) = 0) =>
        /\ Len(audio_chunks) = 1
        /\ Len(audio_chunks[1]) = WindowSamples
        /\ \A j \in 1..WindowSamples : audio_chunks[1][j] = 0

\* witness of C10: the empty waveform has been chunked with W > 1
C10_Witness ==
    cpc = "chunked" /\ Len(audio) = 0 /\ WindowSamples > 1

-----------------------------------------------------------------------------
(* SpecDecode: process_chunks on every small set of window outputs *)

DecodeInit ==
    /\ chunks = <<<<>>>>
    /\ segments = <<>>
    /\ tokens_acc = <<>>
    /\ dpc = "input"
    /\ ChunkIdle
    /\ request = DefaultRequest
    /\ OrchIdle
    /\ MonIdle
    /\ CatIdle

\* the engine's final output of the last window gains one token
EmitToken ==
    /\ dpc = "input"
    /\ Len(Flatten(chunks)) < MaxTotalTokens
    /\ \E tok \in Vocabulary :
        chunks' = [chunks EXCEPT ![Len(chunks)] = Append(@, tok)]
    /\ UNCHANGED <<segments, tokens_acc, dpc>>
    /\ UNCHANGED <<chunkVars, orchVars, monVars, catVars>>

\* the request has one more window, its output still empty
NextWindow ==
    /\ dpc = "input"
    /\ Len(chunks) < MaxChunks
    /\ chunks' = Append(chunks, <<>>)
    /\ UNCHANGED <<segments, tokens_acc, dpc>>
    /\ UNCHANGED <<chunkVars, orchVars, monVars, catVars>>

\* the call process_chunks(tokenizer, chunks, request)
Assemble ==
    /\ dpc = "input"
    /\ LET out == process_chunks(chunks)
       IN  /\ segments' = out.segments
           /\ tokens_acc' = out.tokens
    /\ dpc' = "assembled"
    /\ UNCHANGED chunks
    /\ UNCHANGED <<chunkVars, orchVars, monVars, catVars>>

DecodeNext == EmitToken \/ NextWindow \/ Assemble

SpecDecode == DecodeInit /\ [][DecodeNext]_vars

\* for each segment of the result, the index (0-based) of the window it
\* came from: process_chunks appends the segments window by window
SegmentWindows ==
    Flatten([w \in 1..Len(chunks) |->
                [j \in 1..Len(process_chunk(chunks[w])) |-> w - 1]])

\* the timestamp values of a window, in stream order
TimestampValues(ids) ==
    LET positions == flatnonzero(timestamps_mask(ids))
    IN  [t \in 1..Len(positions) |->
            ParseTimestamp(convert_ids_to_tokens(ids[positions[t] + 1]))]

\* every window's timestamp values never decrease along the stream
MonotoneTimestamps ==
    \A w \in 1..Len(chunks) :
        LET v == TimestampValues(chunks[w])
        IN  \A a, b \in 1..Len(v) : a <= b => v[a] <= v[b]

\* C5 (as claimed): no two segments of the assembled transcript share an id
\* and the ids increase along the list.
C5_IdsUniqueIncreasing ==
    dpc = "assembled" =>
        \A a, b \in 1..Len(segments) : a < b => segments[a].id < segments[b].id

\* C6 (as claimed): every segment of the transcript has end >= start,
\* whatever token stream the engine produced.
C6_EndNotBeforeStart ==
    dpc = "assembled" =>
        \A j \in 1..Len(segments) : segments[j].end >= segments[j].start

\* C6 (amended): every segment has end >= start when the timestamp values of
\* each window never decrease along its token stream.
C6_EndNotBeforeStartMonotone ==
    (dpc = "assembled" /\ MonotoneTimestamps) =>
        \A j \in 1..Len(segments) : segments[j].end >= segments[j].start

\* witness of C6: a window with three timestamps, not all equal and never
\* decreasing, was decoded into two segments
C6_Witness ==
    /\ dpc = "assembled"
    /\ MonotoneTimestamps
    /\ \E w \in 1..Len(chunks) :
        LET v == TimestampValues(chunks[w])
        IN  Len(v) >= 3 /\ v[2] > 0 /\ v[3] > v[2]
    /\ Len(segments) >= 2

SortedByStart ==
    \A a, b \in 1..Len(segments) : a < b => segments[a].start <= segments[b].start

\* segments of different windows share no time but a window boundary
NoOverlapAcrossWindows ==
    LET win == SegmentWindows
    IN  \A a, b \in 1..Len(segments) :
            (a < b /\ win[a] # win[b]) => segments[a].end <= segments[b].start

EndsWithinAudio ==
    \A j \in 1..Len(segments) :
        segments[j].end <= Len(chunks) * WHISPER_SEGMENT_DURATION_SEC * 100

\* C7 (as claimed): the segment list is sorted by start, segments of
\* different windows do not overlap but at window boundaries, and no end
\* exceeds n x window_duration_sec.
C7_TemporalOrdering ==
    dpc = "assembled" =>
        SortedByStart /\ NoOverlapAcrossWindows /\ EndsWithinAudio

\* C7 (amended): segments of different windows do not overlap but at window
\* boundaries and no end exceeds n x window_duration_sec; the list is sorted
\* by start when each window's timestamp values never decrease.
C7_TemporalOrderingMonotone ==
    dpc = "assembled" =>
        /\ MonotoneTimestamps => SortedByStart
        /\ NoOverlapAcrossWindows
        /\ EndsWithinAudio

\* witness of C7: two windows each gave a segment, the later one ending
\* after the first window's end, from monotone timestamps
C7_Witness ==
    /\ dpc = "assembled"
    /\ MonotoneTimestamps
    /\ Len(chunks) >= 2
    /\ \E a, b \in 1..Len(segments) :
        /\ SegmentWindows[a] = 0 /\ SegmentWindows[b] = 1
        /\ segments[a].end > 0
        /\ segments[b].end > WHISPER_SEGMENT_DURATION_SEC * 100

\* the token stream has exactly the timestamp pattern [T0, text, T1, text, T2]:
\* three timestamps, the first and the last token among them, text between
TimestampPattern(ids) ==
    LET mask == timestamps_mask(ids)
    IN  /\ Len(ids) >= 5
        /\ Len(flatnonzero(mask)) = 3
        /\ mask[1] /\ mask[Len(ids)]
        /\ \A i \in 1..(Len(ids) - 1) : ~(mask[i] /\ mask[i + 1])

\* C11 (as claimed): a single window with the pattern [T0, text, T1, text, T2]
\* decodes to exactly one segment, from value(T0) (or the initial pending
\* start) to value(T1), and T2 emits nothing.
C11_OneSegmentFromPattern ==
    (dpc = "assembled" /\ Len(chunks) = 1 /\ TimestampPattern(chunks[1])) =>
        LET v == TimestampValues(chunks[1])
        IN  /\ Len(segments) = 1
            /\ segments[1].start \in {v[1], 0}
            /\ segments[1].end = v[2]

\* C11 (amended): a single window with the pattern [T0, text, T1, text, T2]
\* decodes to exactly two segments: the first is closed by T0, runs from the
\* initial pending start 0 to value(T0) and has no tokens; the second is
\* closed by T2, runs from value(T1) to value(T2) and holds every token
\* before T2. The odd-indexed T1 emits nothing.
C11_TwoSegmentsFromPattern ==
    (dpc = "assembled" /\ Len(chunks) = 1 /\ TimestampPattern(chunks[1])) =>
        LET v == TimestampValues(chunks[1])
            ids == chunks[1]
        IN  /\ Len(segments) = 2
            /\ segments[1].start = 0
            /\ segments[1].end = v[1]
            /\ segments[1].tokens = <<>>
            /\ segments[2].start = v[2]
            /\ segments[2].end = v[3]
            /\ segments[2].tokens = SubSeq(ids, 1, Len(ids) - 1)

\* witness of C11: the pattern with three different values, T0 not <|0.00|>,
\* has been decoded
C11_Witness ==
    /\ dpc = "assembled"
    /\ Len(chunks) = 1
    /\ TimestampPattern(chunks[1])
    /\ LET v == TimestampValues(chunks[1])
       IN  v[1] # 0 /\ v[2] # v[1] /\ v[3] # v[2] /\ v[3] # v[1]
    /\ Len(segments) = 2

\* number of segments process_chunks has collected before window w (1-based)
CollectedBefore(w) ==
    Len(Flatten([u \in 1..(w - 1) |-> process_chunk(chunks[u])]))

\* C12: for every window index i decoded after c collected segments, the
\* first segment of the window has id c, and every segment of the window has
\* its window-local start and end plus i x WHISPER_SEGMENT_DURATION_SEC.
C12_IdAndTimeRebasing ==
    dpc = "assembled" =>
        \A w \in 1..Len(chunks) :
            LET local == process_chunk(chunks[w])
                c == CollectedBefore(w)
            IN  /\ Len(local) > 0 => segments[c + 1].id = c
                /\ \A j \in 1..Len(local) :
                    /\ segments[c + j].start =
                           local[j].start + (w - 1) * WHISPER_SEGMENT_DURATION_SEC * 100
                    /\ segments[c + j].end =
                           local[j].end + (w - 1) * WHISPER_SEGMENT_DURATION_SEC * 100

\* witness of C12: the second window was decoded after two segments had been
\* collected and gave a segment with a window-local end above 0
C12_Witness ==
    /\ dpc = "assembled"
    /\ Len(chunks) = 2
    /\ CollectedBefore(2) = 2
    /\ Len(segments) >= 3
    /\ segments[3].id = 2
    /\ process_chunk(chunks[2])[1].end > 0
    /\ segments[3].end > WHISPER_SEGMENT_DURATION_SEC * 100


RECURSIVE SegmentsBefore(_)
\* the number of segments due before window w (1-based) when every window
\* gives one segment per even-indexed timestamp occurrence
SegmentsBefore(w) ==
    IF w <= 1 THEN 0
    ELSE SegmentsBefore(w - 1)
            + CeilDiv(Len(flatnonzero(timestamps_mask(chunks[w - 1]))), 2)

\* C22: a window with k timestamp tokens gives ceil(k/2) segments, one per
\* even-indexed occurrence t; that segment starts at the window's offset plus
\* the value of occurrence t-1 (0 for t = 0) and ends at the offset plus the
\* value of occurrence t.
C22_ScanAlternation ==
    dpc = "assembled" =>
        /\ Len(segments) = SegmentsBefore(Len(chunks) + 1)
        /\ \A w \in 1..Len(chunks) :
            LET v == TimestampValues(chunks[w])
                before == SegmentsBefore(w)
                offset == (w - 1) * WHISPER_SEGMENT_DURATION_SEC * 100
            IN  \A j \in 1..CeilDiv(Len(v), 2) :
                    /\ segments[before + j].start =
                            offset + (IF j = 1 THEN 0 ELSE v[2 * j - 2])
                    /\ segments[before + j].end = offset + v[2 * j - 1]

\* witness of C22: a window with four timestamps of which the second is above
\* 0 gave two segments, and a second window with no timestamp gave none
C22_Witness ==
    /\ dpc = "assembled"
    /\ Len(chunks) = 2
    /\ Len(TimestampValues(chunks[1])) = 4
    /\ TimestampValues(chunks[1])[2] > 0
    /\ chunks[2] # <<>>
    /\ TimestampValues(chunks[2]) = <<>>
    /\ Len(segments) = 2

\* C23 (as claimed): the tokens of a segment are exactly the text tokens of
\* the span from slice_start to the closing timestamp.
C23_SpanOfTextTokens ==
    dpc = "assembled" =>
        \A w \in 1..Len(chunks) :
            LET ids == chunks[w]
                positions == flatnonzero(timestamps_mask(ids))
                before == SegmentsBefore(w)
                IsText(tok) == tok < k_timestamp_token
            IN  \A j \in 1..CeilDiv(Len(positions), 2) :
                    segments[before + j].tokens =
                        SelectSeq(SubSeq(ids,
                                         (IF j = 1 THEN 0 ELSE positions[2 * j - 3]) + 1,
                                         positions[2 * j - 1]),
                                  IsText)

\* C23 (amended): the tokens of a segment are all the tokens, timestamp
\* tokens included, from position slice_start (inclusive) to the closing
\* timestamp's position (exclusive), where slice_start is 0 before the first
\* emission and the closing timestamp's position after each emission.
C23_SpanOfAllTokens ==
    dpc = "assembled" =>
        \A w \in 1..Len(chunks) :
            LET ids == chunks[w]
                positions == flatnonzero(timestamps_mask(ids))
                before == SegmentsBefore(w)
            IN  \A j \in 1..CeilDiv(Len(positions), 2) :
                    segments[before + j].tokens =
                        SubSeq(ids,
                               (IF j = 1 THEN 0 ELSE positions[2 * j - 3]) + 1,
                               positions[2 * j - 1])

\* witness of C23: a window opening with a text token gave two segments, the
\* second of which holds both timestamp and text tokens
C23_Witness ==
    /\ dpc = "assembled"
    /\ Len(chunks) = 1
    /\ Len(chunks[1]) >= 5
    /\ chunks[1][1] < k_timestamp_token
    /\ Len(segments) = 2
    /\ segments[1].tokens # <<>>
    /\ \E a, b \in 1..Len(segments[2].tokens) :
        /\ segments[2].tokens[a] >= k_timestamp_token
        /\ segments[2].tokens[b] < k_timestamp_token

\* C27: the flag of every segment of a window is true iff the window's output
\* has at least two tokens, the last a timestamp and the one before not.
C27_OpenEndedFlag ==
    dpc = "assembled" =>
        \A w \in 1..Len(chunks) :
            LET ids == chunks[w]
                before == SegmentsBefore(w)
                n == Len(ids)
            IN  \A j \in 1..CeilDiv(Len(flatnonzero(timestamps_mask(ids))), 2) :
                    segments[before + j].is_single_ending_timestamp
                        = (/\ n >= 2
                           /\ ids[n] >= k_timestamp_token
                           /\ ids[n - 1] < k_timestamp_token)

\* witness of C27: a window ending in text then timestamp gave two segments
\* with the flag set, and a one-token window gave a segment without it
C27_Witness ==
    /\ dpc = "assembled"
    /\ Len(chunks) = 2
    /\ Len(chunks[2]) = 1
    /\ Len(segments) = 3
    /\ segments[1].is_single_ending_timestamp
    /\ segments[2].is_single_ending_timestamp
    /\ ~segments[3].is_single_ending_timestamp

\* C29: the tokens decoded into the full text are the windows' complete
\* outputs concatenated in window order, whatever segments the windows gave.
C29_FullTextTokens ==
    dpc = "assembled" => tokens_acc = Flatten(chunks)

\* witness of C29: the first window has tokens and gave no segment, the
\* second gave one, and both outputs are in the accumulated tokens
C29_Witness ==
    /\ dpc = "assembled"
    /\ Len(chunks) = 2
    /\ Len(chunks[1]) >= 2
    /\ process_chunk(chunks[1]) = <<>>
    /\ Len(chunks[2]) >= 2
    /\ Len(segments) >= 1
    /\ Len(tokens_acc) = Len(chunks[1]) + Len(chunks[2])


-----------------------------------------------------------------------------
(* SpecMonitor: the scheduler publishes, subscribers of GET /state read *)

MonInit ==
    /\ MonIdle
    /\ CatIdle
    /\ ChunkIdle
    /\ DecodeIdle
    /\ request = DefaultRequest
    /\ OrchIdle

\* HpaObservableScheduler.schedule(): broadcast_sync(MonitoringStats(...))
\* creates the task that will run broadcast(message) and returns.
Schedule ==
    /\ Len(published) < MaxPublishes
    /\ LET message == ScheduledStats(Len(published) + 1)
       IN  /\ tasks' = Append(tasks, message)
           /\ published' = Append(published, message)
    /\ UNCHANGED <<current, queue, put_waiting, getters, sub, events, gone,
                   start_len, start_current, drained, purged>>
    /\ UNCHANGED <<chunkVars, decodeVars, orchVars, catVars>>

\* The event loop runs the oldest broadcast task: broadcast(message) sets
\* _current, purges a full queue and puts the message. Queue.put suspends
\* only while the queue is full; otherwise it inserts the item and wakes the
\* oldest waiting getter.
Broadcast ==
    /\ tasks # <<>>
    /\ LET message == Head(tasks)
           purged_queue == Purge(queue)
       IN  /\ tasks' = Tail(tasks)
           /\ current' = message
           /\ purged' = purged + (Len(queue) - Len(purged_queue))
           /\ IF QueueFull(purged_queue)
              THEN /\ put_waiting' = Append(put_waiting, message)
                   /\ UNCHANGED <<queue, getters, sub>>
              ELSE /\ queue' = Append(purged_queue, message)
                   /\ put_waiting' = put_waiting
                   /\ IF getters # <<>>
                      THEN /\ getters' = Tail(getters)
                           /\ sub' = [sub EXCEPT ![Head(getters)] = "woken"]
                      ELSE UNCHANGED <<getters, sub>>
    /\ UNCHANGED <<events, gone, published, start_len, start_current, drained>>
    /\ UNCHANGED <<chunkVars, decodeVars, orchVars, catVars>>

\* GET /state: StreamingResponse(monitor.recv(request)) is returned; the
\* generator has not run yet.
Connect(s) ==
    /\ sub[s] = "none"
    /\ sub' = [sub EXCEPT ![s] = "start"]
    /\ UNCHANGED <<current, queue, tasks, put_waiting, getters, events, gone,
                   published, start_len, start_current, drained, purged>>
    /\ UNCHANGED <<chunkVars, decodeVars, orchVars, catVars>>

\* the generator runs to its first yield: _to_sse_event(self._current)
RecvFirst(s) ==
    /\ sub[s] = "start"
    /\ events' = [events EXCEPT ![s] = Append(@, current)]
    /\ sub' = [sub EXCEPT ![s] = "yielded"]
    /\ start_len' = [start_len EXCEPT ![s] = Len(published)]
    /\ start_current' = [start_current EXCEPT ![s] = current]
    /\ UNCHANGED <<current, queue, tasks, put_waiting, getters, gone, published,
                   drained, purged>>
    /\ UNCHANGED <<chunkVars, decodeVars, orchVars, catVars>>

\* `msg = await self._queue.get()` from the test `while self.empty()` on:
\* with an item in the queue it is taken and yielded, otherwise the
\* subscriber joins the getters and suspends.
QueueGet(s) ==
    IF queue = <<>>
    THEN /\ getters' = Append(getters, s)
         /\ sub' = [sub EXCEPT ![s] = "get"]
         /\ UNCHANGED <<queue, events, drained>>
    ELSE /\ queue' = LifoGet(queue).rest
         /\ events' = [events EXCEPT ![s] = Append(@, LifoGet(queue).item)]
         /\ drained' = drained + 1
         /\ sub' = [sub EXCEPT ![s] = "yielded"]
         /\ UNCHANGED getters

\* The response asks the generator for its next event: the loop test
\* `while not await request.is_disconnected()` ends the generator for a
\* client that has disconnected, and otherwise the body calls queue.get().
RecvNext(s) ==
    /\ sub[s] = "yielded"
    /\ IF gone[s]
       THEN /\ sub' = [sub EXCEPT ![s] = "ended"]
            /\ UNCHANGED <<queue, getters, events, drained>>
       ELSE QueueGet(s)
    /\ UNCHANGED <<current, tasks, put_waiting, gone, published, start_len,
                   start_current, purged>>
    /\ UNCHANGED <<chunkVars, decodeVars, orchVars, catVars>>

\* a subscriber woken by a put resumes inside queue.get()
RecvWake(s) ==
    /\ sub[s] = "woken"
    /\ QueueGet(s)
    /\ UNCHANGED <<current, tasks, put_waiting, gone, published, start_len,
                   start_current, purged>>
    /\ UNCHANGED <<chunkVars, decodeVars, orchVars, catVars>>

\* the subscriber's client disconnects: request.is_disconnected() is true
\* from now on
ClientDisconnect(s) ==
    /\ sub[s] \notin {"none", "ended"}
    /\ ~gone[s]
    /\ gone' = [gone EXCEPT ![s] = TRUE]
    /\ UNCHANGED <<current, queue, tasks, put_waiting, getters, sub, events,
                   published, start_len, start_current, drained, purged>>
    /\ UNCHANGED <<chunkVars, decodeVars, orchVars, catVars>>

MonNext ==
    \/ Schedule
    \/ Broadcast
    \/ \E s \in Subs : Connect(s)
    \/ \E s \in Subs : RecvFirst(s)
    \/ \E s \in Subs : RecvNext(s)
    \/ \E s \in Subs : RecvWake(s)
    \/ \E s \in Subs : ClientDisconnect(s)

SpecMonitor == MonInit /\ [][MonNext]_vars

\* C13 (as claimed): after publishes that no subscriber drained, the buffer
\* holds exactly the last sample published and current() equals it; a
\* subscriber that starts after a publish is first sent the last sample
\* published and is never sent an earlier one.
C13_DropOldest ==
    /\ (published # <<>> /\ drained = 0) =>
            /\ queue = <<Last(published)>>
            /\ current = Last(published)
    /\ \A s \in Subs :
        (events[s] # <<>> /\ start_len[s] > 0) =>
            /\ events[s][1] = published[start_len[s]]
            /\ \A k \in 1..Len(events[s]) :
                events[s][k].in_flight >= start_len[s]

\* C14 (as claimed): when a publish returns to the scheduler, current()
\* equals the sample published.
C14_PublishSynchronous ==
    [][published' # published => current' = Last(published')]_vars

\* C15: no broadcast ever suspends in the queue's put, whatever the
\* subscribers do, and the buffer never holds more than one sample.
C15_PublisherNeverBlocked ==
    /\ put_waiting = <<>>
    /\ Len(queue) <= 1

\* witness of C15: with two subscribers reading since before the first
\* publish, one slow (suspended at a yield) and one woken inside queue.get()
\* but not resumed, its client gone, a broadcast has purged an unread sample
\* and inserted its own
C15_Witness ==
    /\ purged >= 1
    /\ Len(queue) = 1
    /\ tasks = <<>>
    /\ \E s, r \in Subs :
        /\ s # r
        /\ sub[s] = "yielded" /\ ~gone[s] /\ start_len[s] = 0
        /\ sub[r] = "woken" /\ gone[r] /\ start_len[r] = 0

\* C16 (as claimed): the events of a subscriber that has read everything
\* are the sample current when it began, then exactly one event for each
\* sample published after that one, in order.
C16_OneEventPerPublish ==
    \A s \in Subs :
        (sub[s] = "get" /\ tasks = <<>>) =>
            events[s] = <<start_current[s]>> \o
                SubSeq(published, start_current[s].in_flight + 1, Len(published))

\* C17 (as claimed): the first event is current(), the generator ends only
\* for a client that has disconnected, and a disconnected subscriber is never
\* left suspended in queue.get() with no broadcast pending, where only a
\* further publish can resume it.
C17_SubscribeLifecycle ==
    \A s \in Subs :
        /\ events[s] # <<>> => events[s][1] = start_current[s]
        /\ sub[s] = "ended" => gone[s]
        /\ ~(gone[s] /\ sub[s] = "get" /\ tasks = <<>>)

-----------------------------------------------------------------------------
(* Spec: one request to POST /v1/audio/transcriptions *)

Init ==
    /\ request \in [file_len : {0, 1},
                    language_ok : BOOLEAN,
                    response_format : ResponseFormats]
    /\ OrchIdle
    /\ ChunkIdle
    /\ DecodeIdle
    /\ MonIdle
    /\ CatIdle

history == <<done_order, disconnected, inflight_at_cancel, inflight_at_fail>>

\* The handler leaves `async with scoped_cancellation_handler(request)` with
\* the response r: the line after the yield (or the task group's exit, when
\* an exception leaves the body) cancels the scope, which ends
\* disconnection_handler.
Leave(r) ==
    /\ response' = r
    /\ scope' = "closed"
    /\ cancel_called' = TRUE
    /\ pc' = "done"

\* faulty variant of ValidLanguage: the language is not checked
MutValidLanguage(req) == TRUE

\* `params.language not in ISO639_1_SUPPORTED_LANGS` is false
ValidLanguage(req) == req.language_ok

\* faulty variant of HasAudio: the length of the file is not tested
MutHasAudio(req) == TRUE

\* `if len(request.file):`
HasAudio(req) == req.file_len > 0

\* transcription() up to the first suspension of service(...): the language
\* check, the scope, and __call__ down to the audio demux.
Receive ==
    /\ pc = "idle"
    /\ IF ~ValidLanguage(request)
       THEN \* raise HTTPException(400, ...)
            /\ response' = [NoResponse EXCEPT !.kind = "http_400"]
            /\ pc' = "done"
            /\ UNCHANGED <<service, scope, cancel_called>>
       ELSE IF ~HasAudio(request)
       THEN \* `if len(request.file)` fails: Response(204)
            /\ service' = "resolved"
            /\ Leave([NoResponse EXCEPT !.kind = "no_content_204"])
       ELSE \* await self.run_in_executor(load_mono_audio_at_22050, ...)
            /\ service' = "resolved"
            /\ pc' = "demux"
            /\ scope' = "open"
            /\ UNCHANGED <<response, cancel_called>>
    /\ UNCHANGED <<request, nwin, task, step, yielded, fin, cancels, text_chunks,
                   assembled, history>>
    /\ UNCHANGED <<chunkVars, decodeVars, monVars, catVars>>

\* The demux returns a waveform; it is chunked; the handler awaits the
\* tokenizer and the model config.
DemuxDone ==
    /\ pc = "demux"
    /\ \E len \in AudioLengths :
        nwin' = ChunkCount(len, WHISPER_SEGMENT_DURATION_SEC, WHISPER_SAMPLING_RATE)
    /\ pc' = "config"
    /\ UNCHANGED <<request, service, scope, cancel_called, task, step, yielded, fin, cancels,
                   text_chunks, response, assembled, history>>
    /\ UNCHANGED <<chunkVars, decodeVars, monVars, catVars>>

\* The loop over audio_chunks builds one coroutine per window and
\* asyncio.gather wraps each in a task; the handler awaits the gather.
Submit ==
    /\ pc = "config"
    /\ task' = [i \in Ids |-> IF i < nwin THEN "pending" ELSE "none"]
    /\ pc' = "gather"
    /\ UNCHANGED <<request, service, scope, cancel_called, nwin, step, yielded, fin, cancels,
                   text_chunks, response, assembled, history>>
    /\ UNCHANGED <<chunkVars, decodeVars, monVars, catVars>>

\* faulty variant of GatherAfter: the gather resolves with the first return
MutGatherAfter(newtask) ==
    IF pc = "gather" /\ \E i \in Ids : i < nwin /\ newtask[i] = "returned"
    THEN "gathered" ELSE pc

\* the gather future resolves when the last of its tasks has returned
GatherAfter(newtask) ==
    IF pc = "gather" /\ \A i \in Ids : i < nwin => newtask[i] = "returned"
    THEN "gathered" ELSE pc

\* faulty variant of CanStart: each window is awaited before the next starts
MutCanStart(tsk, i) ==
    /\ tsk[i] = "pending"
    /\ \A j \in Ids : j < i => tsk[j] = "returned"

\* a task of the gather may run as soon as the gather has scheduled it,
\* whatever the state of the other tasks
CanStart(tsk, i) == tsk[i] = "pending"

\* A task runs for the first time: _handle_inference_stream reaches
\* self._engine.schedule(params), which submits its request id to the engine.
TaskStart(i) ==
    /\ CanStart(task, i)
    /\ task' = [task EXCEPT ![i] = "waiting"]
    /\ UNCHANGED <<request, service, pc, scope, cancel_called, nwin, step, yielded, fin,
                   cancels, text_chunks, response, assembled, history>>
    /\ UNCHANGED <<chunkVars, decodeVars, monVars, catVars>>

\* The engine yields a step for request id i and the task's loop body runs:
\* with cancel_called set it calls engine.cancel(step.request_id) and awaits
\* it; otherwise it goes on to the next step, or returns `step` when the
\* stream is exhausted.
StreamStep(i) ==
    /\ task[i] = "waiting"
    /\ ~fin[i]
    /\ yielded[i] < MaxSteps
    /\ \E finished \in BOOLEAN :
        /\ (yielded[i] + 1 = MaxSteps) => finished
        /\ yielded' = [yielded EXCEPT ![i] = @ + 1]
        /\ fin' = [fin EXCEPT ![i] = finished]
        /\ step' = [step EXCEPT ![i] = EngineStep(i, yielded[i] + 1, finished)]
        /\ IF cancel_called
           THEN /\ cancels' = [cancels EXCEPT ![step'[i].request_id] = @ + 1]
                /\ task' = [task EXCEPT ![i] = "aborting"]
                /\ UNCHANGED <<done_order, pc>>
           ELSE /\ task' = [task EXCEPT ![i] = IF finished THEN "returned" ELSE "waiting"]
                /\ done_order' = IF finished THEN Append(done_order, i) ELSE done_order
                /\ pc' = GatherAfter(task')
                /\ UNCHANGED cancels
    /\ UNCHANGED <<request, service, scope, cancel_called, nwin, text_chunks, response,
                   assembled, disconnected, inflight_at_cancel, inflight_at_fail>>
    /\ UNCHANGED <<chunkVars, decodeVars, monVars, catVars>>

\* `await self._engine.cancel(step.request_id)` returns: the loop asks for
\* the next step, and returns `step` if the stream was already exhausted.
AbortDone(i) ==
    /\ task[i] = "aborting"
    /\ task' = [task EXCEPT ![i] = IF fin[i] THEN "returned" ELSE "waiting"]
    /\ done_order' = IF fin[i] THEN Append(done_order, i) ELSE done_order
    /\ pc' = GatherAfter(task')
    /\ UNCHANGED <<request, service, scope, cancel_called, nwin, step, yielded, fin, cancels,
                   text_chunks, response, assembled, disconnected,
                   inflight_at_cancel, inflight_at_fail>>
    /\ UNCHANGED <<chunkVars, decodeVars, monVars, catVars>>

\* The engine ends the stream of an id it was told to cancel without a
\* further step: the task returns the last step it saw.
StreamEnd(i) ==
    /\ task[i] = "waiting"
    /\ cancels[i] > 0
    /\ ~fin[i]
    /\ task' = [task EXCEPT ![i] = "returned"]
    /\ done_order' = Append(done_order, i)
    /\ pc' = GatherAfter(task')
    /\ UNCHANGED <<request, service, scope, cancel_called, nwin, step, yielded, fin, cancels,
                   text_chunks, response, assembled, disconnected,
                   inflight_at_cancel, inflight_at_fail>>
    /\ UNCHANGED <<chunkVars, decodeVars, monVars, catVars>>

\* The stream of id i raises: nothing in _handle_inference_stream catches it,
\* the task ends with the exception, and a gather still pending resolves with
\* it at once, leaving its other tasks running.
StreamRaise(i) ==
    /\ task[i] = "waiting"
    /\ ~fin[i]
    /\ task' = [task EXCEPT ![i] = "raised"]
    /\ pc' = IF pc = "gather" THEN "gather_raised" ELSE pc
    /\ UNCHANGED <<request, service, scope, cancel_called, nwin, step, yielded, fin, cancels,
                   text_chunks, response, assembled, history>>
    /\ UNCHANGED <<chunkVars, decodeVars, monVars, catVars>>

\* The handler resumes with the gather's results. With cancel_called unset
\* it hands them to process_chunks in the executor and awaits that;
\* otherwise it falls through to Response(204).
Gathered ==
    /\ pc = "gathered"
    /\ text_chunks' = GatherResults(nwin, step, done_order)
    /\ IF ~cancel_called
       THEN /\ pc' = "post"
            /\ assembled' = TRUE
            /\ UNCHANGED <<response, scope, cancel_called>>
       ELSE /\ Leave([NoResponse EXCEPT !.kind = "no_content_204"])
            /\ UNCHANGED assembled
    /\ UNCHANGED <<request, service, nwin, task, step, yielded, fin, cancels, history>>
    /\ UNCHANGED <<chunkVars, decodeVars, monVars, catVars>>

\* chunk.outputs[-1].token_ids of every gathered chunk
TokenIdsOf(outs) == [k \in 1..Len(outs) |-> outs[k].token_ids]

\* process_chunks returns: VerboseTranscription for verbose_json,
\* Transcription(text=text) for every other response_format.
PostProcess ==
    /\ pc = "post"
    /\ LET out == process_chunks(TokenIdsOf(text_chunks))
       IN  IF request.response_format = "verbose_json"
           THEN Leave([kind |-> "verbose_transcription",
                       text |-> DecodeText(out.tokens),
                       segments |-> out.segments])
           ELSE Leave([kind |-> "transcription",
                       text |-> DecodeText(out.tokens),
                       segments |-> <<>>])
    /\ UNCHANGED <<request, service, nwin, task, step, yielded, fin, cancels, text_chunks,
                   assembled, history>>
    /\ UNCHANGED <<chunkVars, decodeVars, monVars, catVars>>

\* The handler resumes with the exception the gather resolved with: it
\* leaves __call__ and the scope and is re-raised by transcription().
Failed ==
    /\ pc = "gather_raised"
    /\ Leave([NoResponse EXCEPT !.kind = "error"])
    /\ inflight_at_fail' = {i \in Ids : task[i] \in InFlight}
    /\ UNCHANGED <<request, service, nwin, task, step, yielded, fin, cancels, text_chunks,
                   assembled, done_order, disconnected, inflight_at_cancel>>
    /\ UNCHANGED <<chunkVars, decodeVars, monVars, catVars>>

\* The cancelled handler task unwinds: the CancelledError leaves __call__,
\* the task group absorbs it, and transcription() ends without a response.
Unwind ==
    Leave([NoResponse EXCEPT !.kind = "none"])

\* faulty variant of SuspendedOnPending: cancel() only sets cancel_called
\* and never interrupts the handler
MutSuspendedOnPending(p) == FALSE

\* the handler task is suspended on a future that is still pending (the
\* executor's demux or post-processing, the engine's tokenizer or config, the
\* gather): a cancellation of its scope reaches it there
SuspendedOnPending(p) == p \in {"demux", "config", "gather", "post"}

\* disconnection_handler receives http.disconnect and calls
\* has_disconnect.cancel() on the task group's scope. That sets cancel_called
\* and cancels the task that entered the scope, the handler, where it is
\* suspended. If it is suspended on the gather, cancelling the gather cancels
\* every task of it that is not done: each ends with CancelledError at its
\* await and never reaches the line after it. If the awaited future is
\* already resolved, the cancel scope either leaves the wake-up alone or
\* replaces it with CancelledError (`delivered`), depending on its version.
Disconnect ==
    /\ scope = "open"
    /\ ~disconnected
    /\ disconnected' = TRUE
    /\ \E delivered \in BOOLEAN :
        /\ SuspendedOnPending(pc) => delivered
        /\ IF delivered
           THEN /\ Unwind
                /\ task' = [i \in Ids |->
                        IF pc = "gather" /\ task[i] \in {"pending", "waiting", "aborting"}
                        THEN "cancelled" ELSE task[i]]
                /\ inflight_at_cancel' =
                        IF pc = "gather" THEN {i \in Ids : task[i] \in InFlight} ELSE {}
           ELSE /\ cancel_called' = TRUE
                /\ UNCHANGED <<pc, scope, response, task, inflight_at_cancel>>
    /\ UNCHANGED <<request, service, nwin, step, yielded, fin, cancels, text_chunks,
                   assembled, done_order, inflight_at_fail>>
    /\ UNCHANGED <<chunkVars, decodeVars, monVars, catVars>>

Next ==
    \/ Receive
    \/ DemuxDone
    \/ Submit
    \/ \E i \in Ids : TaskStart(i)
    \/ \E i \in Ids : StreamStep(i)
    \/ \E i \in Ids : AbortDone(i)
    \/ \E i \in Ids : StreamEnd(i)
    \/ \E i \in Ids : StreamRaise(i)
    \/ Gathered
    \/ PostProcess
    \/ Failed
    \/ Disconnect

Spec == Init /\ [][Next]_vars

\* C1 (as claimed): once a disconnect has hit a request whose sub-requests
\* were still in flight and the call has ended, every sub-request that was in
\* flight at the disconnect has received an engine cancel for its own id.
C1_CancelFanOut ==
    (pc = "done" /\ inflight_at_cancel # {}) =>
        \A i \in inflight_at_cancel : cancels[i] >= 1

\* C2 (as claimed): when the cancellation hit before all sub-requests had
\* completed, the call ends without running the assembler and without a
\* transcript, with the no-content response.
C2_NoTranscriptNoContent ==
    (pc = "done" /\ inflight_at_cancel # {}) =>
        /\ ~assembled
        /\ response.kind = "no_content_204"

\* C3 (as claimed): when a stream raised and the failure has surfaced, no
\* transcript was returned and every other sub-request then in flight has
\* already received an engine cancel.
C3_CancelSiblingsBeforeFailure ==
    response.kind = "error" =>
        /\ ~assembled
        /\ \A i \in inflight_at_fail : cancels[i] >= 1

\* the window a segment of the response came from: every window's stream
\* opens with the text token i + 1
SegmentWindow(seg) == seg.tokens[1] - 1

\* C4: whatever order the streams completed in, the k-th output handed to
\* the assembler is the final step the engine yielded for window k, and the
\* segments of the response are those of the windows in submission order.
C4_OrderPreserved ==
    (pc = "post" \/ response.kind \in {"transcription", "verbose_transcription"}) =>
        /\ Len(text_chunks) = nwin
        /\ \A k \in 1..nwin : text_chunks[k] = EngineStep(k - 1, yielded[k - 1], TRUE)
        /\ \A a, b \in 1..Len(response.segments) :
            a < b => SegmentWindow(response.segments[a]) <= SegmentWindow(response.segments[b])
        /\ response.kind = "verbose_transcription" =>
            response.segments =
                process_chunks([k \in 1..nwin |-> EngineTokens(k - 1, yielded[k - 1])]).segments

\* witness of C4: three windows completed in an order other than the
\* submission order, one of them after an intermediate step, and the verbose
\* response carries segments of two windows
C4_Witness ==
    /\ response.kind = "verbose_transcription"
    /\ nwin >= 3
    /\ done_order[1] # 0
    /\ \E i \in Ids : yielded[i] >= 2
    /\ \E a, b \in 1..Len(response.segments) :
        SegmentWindow(response.segments[a]) # SegmentWindow(response.segments[b])

\* C18: no task of the gather waits for another before it submits its
\* sub-request (a pending task can always take its first step), and the
\* handler goes past the gather towards a transcript only when every one of
\* the n streams has yielded its final step and its task has returned.
C18_ConcurrentAndConjunction ==
    /\ \A i \in Ids : task[i] = "pending" => ENABLED TaskStart(i)
    /\ (pc \in {"gathered", "post"}
            \/ response.kind \in {"transcription", "verbose_transcription"}) =>
        \A i \in Ids : i < nwin => (task[i] = "returned" /\ (fin[i] \/ cancels[i] > 0))
    /\ response.kind \in {"transcription", "verbose_transcription"} =>
        \A i \in Ids : i < nwin => fin[i]

\* witness of C18: of three sub-requests the last one has completed, the
\* other two are outstanding at the engine at the same time, each after a
\* first step, and the handler is still waiting on the gather
C18_Witness ==
    /\ nwin = 3
    /\ pc = "gather"
    /\ ~cancel_called
    /\ task[2] = "returned" /\ fin[2]
    /\ task[0] = "waiting" /\ yielded[0] >= 1 /\ ~fin[0]
    /\ task[1] = "waiting" /\ yielded[1] >= 1 /\ ~fin[1]

\* C19 (as claimed, for a request that carries audio and whose client stays
\* connected): a request for srt or vtt is never answered with a transcript
\* in another format nor with an empty result.
C19_UnsupportedFormatFailsFast ==
    (request.response_format \in {"srt", "vtt"} /\ request.file_len > 0
            /\ ~disconnected) =>
        response.kind \notin {"transcription", "verbose_transcription",
                              "no_content_204"}

\* C20: a request with an unsupported language ends with the 400 client
\* error and never reaches the service lookup, the cancellation scope, the
\* engine or a cancel call.
C20_InvalidLanguageRejected ==
    ~request.language_ok =>
        /\ pc \in {"idle", "done"}
        /\ pc = "done" => response.kind = "http_400"
        /\ service = "none"
        /\ scope = "none" /\ ~cancel_called
        /\ \A i \in Ids : task[i] = "none" /\ yielded[i] = 0 /\ cancels[i] = 0

\* witness of C20: a request with audio, a supported format and an
\* unsupported language has been rejected
C20_Witness ==
    /\ ~request.language_ok
    /\ request.file_len > 0
    /\ pc = "done"
    /\ response.kind = "http_400"

C24_StopsWaitingAfterCancel ==
    disconnected => (pc = "done" \/ ENABLED (Gathered \/ Failed))

\* witness of C24: the disconnect hit the gather while two streams were in
\* flight; the call has returned, and the two streams have yielded nothing
\* since and were sent no cancel
C24_Witness ==
    /\ disconnected
    /\ pc = "done"
    /\ Cardinality(inflight_at_cancel) = 2
    /\ \A i \in inflight_at_cancel :
        task[i] = "cancelled" /\ ~fin[i] /\ cancels[i] = 0


\* C30: whenever the capacity-1 buffer holds a sample, that sample is
\* current(); and a sample that a subscriber takes from the buffer is
\* current() at the moment it is taken.
C30_BufferFreshness ==
    [][/\ queue' # <<>> => queue' = <<current'>>
       /\ drained' # drained =>
            \E s \in Subs : events'[s] = Append(events[s], current)]_vars

\* witness of C30: after a broadcast purged an unread sample, a subscriber
\* took the newer sample from the buffer and a later broadcast refilled the
\* buffer
C30_Witness ==
    /\ purged >= 1
    /\ drained >= 1
    /\ queue # <<>>
    /\ \E s \in Subs :
        /\ Len(events[s]) >= 2
        /\ events[s][Len(events[s])] # current
        /\ events[s][Len(events[s])].in_flight >= 2


-----------------------------------------------------------------------------
(* SpecCatalog: one window of the catalog endpoint, generated and decoded *)

CatInit ==
    /\ CatIdle
    /\ ChunkIdle
    /\ DecodeIdle
    /\ request = DefaultRequest
    /\ OrchIdle
    /\ MonIdle

\* __call__ of the catalog endpoint up to the submission of the window:
\* is_verbose from the response kind, create_params(max_tokens, temperature,
\* is_verbose)
CatSubmit ==
    /\ cat_pc = "idle"
    /\ \E is_verbose \in BOOLEAN :
        /\ cat_verbose' = is_verbose
        /\ cat_logprobs' =
            IF create_params(is_verbose).logprobs_is_none
            THEN NoLogprobs
            ELSE [is_none |-> FALSE, steps |-> <<>>]
    /\ cat_pc' = "generating"
    /\ UNCHANGED <<cat_ids, cat_out>>
    /\ UNCHANGED <<chunkVars, decodeVars, orchVars, monVars>>

\* the engine's output gains one token, with the step's logprobs when the
\* params asked for them: the sampled token first, then alternatives (an
\* alternative is listed only beside the less probable sampled value; without
\* logprobs the step is determined by its token)
CatStep ==
    /\ cat_pc = "generating"
    /\ Len(cat_ids) < MaxCatTokens
    /\ \E tok \in Vocabulary, lp \in LogprobValues, with_alt \in BOOLEAN :
        /\ cat_ids' = Append(cat_ids, tok)
        /\ cat_logprobs' =
            IF cat_logprobs.is_none
            THEN cat_logprobs
            ELSE [cat_logprobs EXCEPT !.steps =
                    Append(@, <<[token |-> tok, logprob |-> lp]>>
                                \o (IF with_alt THEN <<AltLogprob>> ELSE <<>>))]
        /\ with_alt => lp = -4
        /\ cat_logprobs.is_none => lp = -4 /\ ~with_alt
    /\ UNCHANGED <<cat_pc, cat_verbose, cat_out>>
    /\ UNCHANGED <<chunkVars, decodeVars, orchVars, monVars>>

\* process_chunks on the single window: process_chunk(tokenizer, ids,
\* generation.logprobs, request, 0, 0) run to exhaustion
CatDecode ==
    /\ cat_pc = "generating"
    /\ cat_out' = catalog_process_chunk(cat_ids, cat_logprobs, 0, 0)
    /\ cat_pc' = "decoded"
    /\ UNCHANGED <<cat_verbose, cat_ids, cat_logprobs>>
    /\ UNCHANGED <<chunkVars, decodeVars, orchVars, monVars>>

CatNext == CatSubmit \/ CatStep \/ CatDecode

SpecCatalog == CatInit /\ [][CatNext]_vars

\* C25 (as claimed): a non-verbose request, for which the engine returns no
\* logprobs, whose window output holds a timestamp token is decoded without
\* an exception, and every segment's avg_logprob is absent.
C25_AvgLogprobNullable ==
    (/\ cat_pc = "decoded"
     /\ ~cat_verbose
     /\ \E i \in 1..Len(cat_ids) : cat_ids[i] >= k_timestamp_token) =>
        /\ cat_out.raised = "none"
        /\ cat_out.segments # <<>>
        /\ \A j \in 1..Len(cat_out.segments) :
            cat_out.segments[j].avg_logprob.is_none

RECURSIVE SumOfSampled(_, _)
\* the sum over the decoding steps of the log-probability listed for the
\* token that was sampled at the step
SumOfSampled(ids, steps) ==
    IF steps = <<>> THEN 0
    ELSE LET entry == CHOOSE e \in {Head(steps)[k] : k \in 1..Len(Head(steps))} :
                            e.token = Head(ids)
         IN  entry.logprob + SumOfSampled(Tail(ids), Tail(steps))

C28_CompressionRatioNeverRaises ==
    cat_pc = "decoded" =>
        /\ cat_out.raised # "ZeroDivisionError"
        /\ cat_verbose => Len(cat_out.segments) = Len(process_chunk(cat_ids))
        /\ \A j \in 1..Len(cat_out.segments) :
            /\ cat_out.segments[j].compression_ratio.den > 0
            /\ cat_out.segments[j].text = <<>> =>
                    cat_out.segments[j].compression_ratio.num = 0

\* witness of C28: a window gave a segment with an empty text, of ratio 0,
\* and a segment with a text of one byte, of ratio 1/9
C28_Witness ==
    /\ cat_pc = "decoded"
    /\ Len(cat_out.segments) = 2
    /\ cat_out.segments[1].text = <<>>
    /\ cat_out.segments[1].compression_ratio = [num |-> 0, den |-> 8]
    /\ cat_out.segments[2].text # <<>>
    /\ cat_out.segments[2].compression_ratio = [num |-> 1, den |-> 9]


\* the samples a subscriber took from the buffer: every event after the
\* first, which is current() at the start of recv
TakenFromBuffer(s) == {events[s][k] : k \in 2..Len(events[s])}

\* C31: a published sample is taken from the buffer by at most one
\* subscriber, and no more samples were taken than broadcasts put in.
C31_SubscribersCompete ==
    /\ \A s1, s2 \in Subs :
        s1 # s2 => TakenFromBuffer(s1) \cap TakenFromBuffer(s2) = {}
    /\ \A s \in Subs :
        Cardinality(TakenFromBuffer(s))
            = Len(events[s]) - (IF events[s] = <<>> THEN 0 ELSE 1)
    /\ drained + purged + Len(queue) = Len(published) - Len(tasks)

\* witness of C31: two subscribers reading since before the first publish;
\* the one sample published and broadcast was taken by one of them and the
\* other is still suspended in queue.get() with nothing left to take
C31_Witness ==
    /\ Len(published) = 1
    /\ tasks = <<>>
    /\ queue = <<>>
    /\ \E s1, s2 \in Subs :
        /\ s1 # s2
        /\ start_len[s1] = 0 /\ start_len[s2] = 0
        /\ events[s1] = <<MonitoringStats(0, 0, 0), published[1]>>
        /\ events[s2] = <<MonitoringStats(0, 0, 0)>>
        /\ sub[s2] = "get"
        /\ getters = <<s2>>

====
